---- MODULE Spec2Model ----
(***************************************************************************)
(* Model of apps/desktop/vibecode-tts/tts.py: the command-line script that *)
(* parses its arguments, obtains a text (from --text or standard input),   *)
(* loads the KittenTTS model, generates a waveform, writes it as a WAV     *)
(* file and prints one JSON status report.                                 *)
(*                                                                         *)
(* One behaviour of the model is one invocation of the script.  The        *)
(* command line, the content of standard input and the outcome of every    *)
(* call into a collaborator (import, model constructor, generate, write)   *)
(* are chosen by the environment.                                          *)
(***************************************************************************)
EXTENDS Integers, Sequences, FiniteSets, TLC

(***************************************************************************)
(* Bounds of the model.                                                    *)
(***************************************************************************)
\* longest string given as --text or found on standard input
MaxLen == 3

(***************************************************************************)
(* Values.                                                                 *)
(***************************************************************************)
\* characters of the modelled strings: two whitespace characters and a letter
Chars == {" ", "\n", "a"}
Whitespace == {" ", "\n"}

RECURSIVE StringsOfLen(_)
StringsOfLen(n) ==
    IF n = 0 THEN {<<>>}
    ELSE {Append(s, c) : s \in StringsOfLen(n - 1), c \in Chars}

Strings == UNION {StringsOfLen(n) : n \in 0..MaxLen}

\* Python's None for an optional string (args.text when --text is not given)
None == <<"None">>
\* an option or positional argument that is not on the command line
Absent == "<absent>"

\* the choices of --voice and its default
Choices == {"expr-voice-2-m", "expr-voice-2-f",
            "expr-voice-3-m", "expr-voice-3-f",
            "expr-voice-4-m", "expr-voice-4-f",
            "expr-voice-5-m", "expr-voice-5-f"}
DefaultVoice == "expr-voice-2-f"
\* a --voice value outside the choices
BadVoice == "robot"

Paths == {"out.wav", "b.wav"}
ModelId == "KittenML/kitten-tts-nano-0.2"
SampleRate == 24000
Waveforms == {"w1", "w2"}
NoAudio == "None"
NoModel == "None"

\* exit codes
Running == -1
ExitOk == 0
ExitHandled == 1
ExitUsage == 2
ExitTraceback == 1
ExitInterrupt == 130

\* what a call can raise: an Exception with a message, KeyboardInterrupt,
\* or SystemExit with a code (the last two are not subclasses of Exception)
Msgs == {"model unavailable", "disk full"}
NoExc == [kind |-> "none", msg |-> "", code |-> 0]
Raisable ==
    {[kind |-> "Exception", msg |-> m, code |-> 0] : m \in Msgs}
    \cup {[kind |-> "KeyboardInterrupt", msg |-> "", code |-> 0]}
    \cup {[kind |-> "SystemExit", msg |-> "", code |-> c] : c \in {0, 1}}

\* the command lines: <output> [--voice v] [--text t] [-h]
Argv == [output : Paths \cup {Absent},
         voice  : Choices \cup {BadVoice, Absent},
         text   : Strings \cup {None},
         help   : BOOLEAN]

NoArgs == [output |-> Absent, voice |-> Absent, text |-> None]

(***************************************************************************)
(* Pure functions of the script.                                           *)
(***************************************************************************)
RECURSIVE LStrip(_)
LStrip(s) ==
    IF s # <<>> /\ Head(s) \in Whitespace THEN LStrip(Tail(s)) ELSE s

RECURSIVE RStrip(_)
RStrip(s) ==
    IF s # <<>> /\ s[Len(s)] \in Whitespace
    THEN RStrip(SubSeq(s, 1, Len(s) - 1))
    ELSE s

\* str.strip(): leading and trailing whitespace removed
Strip(s) == RStrip(LStrip(s))

\* truth value of an optional string: None and "" are false
Truthy(s) == s # None /\ s # <<>>

\* the dict printed on the error paths
ErrorReport(msg) == [success |-> FALSE, error |-> msg]

\* variant: text_length counts the characters of the stripped text
SuccessReportStripped(output, voice, t) ==
    [success |-> TRUE, output |-> output, voice |-> voice,
     text_length |-> Len(Strip(t))]

\* the dict printed on the success path
SuccessReport(output, voice, t) ==
    [success |-> TRUE, output |-> output, voice |-> voice,
     text_length |-> Len(t)]

\* variant: the except clause names one kind of failure only
CatchesModelErrorOnly(exc) ==
    exc.kind = "Exception" /\ exc.msg = "model unavailable"

\* "except Exception" catches Exception and its subclasses only
Catches(exc) == exc.kind = "Exception"

\* exit code of the interpreter when exc propagates out of main()
UncaughtExit(exc) ==
    IF exc.kind = "SystemExit" THEN exc.code
    ELSE IF exc.kind = "KeyboardInterrupt" THEN ExitInterrupt
    ELSE ExitTraceback

\* text argparse prints: the help on stdout, usage errors on stderr
HelpText == [text |-> "help"]
UsageError == [text |-> "usage error"]
Traceback(exc) == [text |-> exc.kind]

(***************************************************************************)
(* State.                                                                  *)
(***************************************************************************)
VARIABLES
    argv,        \* the command line of this invocation
    pc,          \* position in main()
    args,        \* the namespace parse_args() returned
    text,        \* the local variable text
    stdinReads,  \* number of sys.stdin.read() calls
    stdinData,   \* what sys.stdin.read() returned
    model,       \* the local variable model
    audio,       \* the local variable audio
    calls,       \* calls into the collaborators, in order, with their outcome
    files,       \* the file system: path -> what was written there
    stdout,      \* lines printed on standard output
    stderr,      \* text printed on standard error
    caught,      \* the exception the except clause handled
    escaped,     \* the exception that propagated out of main()
    exitCode     \* exit code of the process, Running until it exits

vars == <<argv, pc, args, text, stdinReads, stdinData, model, audio, calls,
          files, stdout, stderr, caught, escaped, exitCode>>

NoFile == [audio |-> NoAudio, rate |-> 0]
Partial == [audio |-> "partial", rate |-> 0]
NoFiles == [p \in Paths |-> NoFile]

Init ==
    /\ argv \in Argv
    /\ pc = "parse_args"
    /\ args = NoArgs
    /\ text = None
    /\ stdinReads = 0
    /\ stdinData = None
    /\ model = NoModel
    /\ audio = NoAudio
    /\ calls = <<>>
    /\ files = NoFiles
    /\ stdout = <<>>
    /\ stderr = <<>>
    /\ caught = NoExc
    /\ escaped = NoExc
    /\ exitCode = Running

\* variant: the except clause exits with 1 without printing a report
RaiseSilent(exc, inTry) ==
    /\ pc' = "exited"
    /\ IF inTry /\ exc.kind = "Exception"
       THEN /\ caught' = exc
            /\ exitCode' = 1
            /\ UNCHANGED <<escaped, stderr, stdout>>
       ELSE /\ escaped' = exc
            /\ exitCode' = IF exc.kind = "SystemExit" THEN exc.code
                           ELSE IF exc.kind = "KeyboardInterrupt" THEN 130
                           ELSE 1
            /\ stderr' = IF exc.kind = "SystemExit" THEN stderr
                         ELSE Append(stderr, [text |-> exc.kind])
            /\ UNCHANGED <<caught, stdout>>

\* variant: the except clause prints the report but has no sys.exit(1), so
\* main() returns and the process exits with 0
RaiseNoExit(exc, inTry) ==
    /\ pc' = "exited"
    /\ IF inTry /\ exc.kind = "Exception"
       THEN /\ caught' = exc
            /\ stdout' = Append(stdout, [success |-> FALSE, error |-> exc.msg])
            /\ exitCode' = 0
            /\ UNCHANGED <<escaped, stderr>>
       ELSE /\ escaped' = exc
            /\ exitCode' = IF exc.kind = "SystemExit" THEN exc.code
                           ELSE IF exc.kind = "KeyboardInterrupt" THEN 130
                           ELSE 1
            /\ stderr' = IF exc.kind = "SystemExit" THEN stderr
                         ELSE Append(stderr, [text |-> exc.kind])
            /\ UNCHANGED <<caught, stdout>>

(***************************************************************************)
(* Raising: inside the try block an Exception is handled by the except     *)
(* clause (error report, sys.exit(1)); anything else, and anything raised  *)
(* outside the try block, propagates out of main() and ends the process.   *)
(***************************************************************************)
Raise(exc, inTry) ==
    /\ pc' = "exited"
    /\ IF inTry /\ Catches(exc)
       THEN /\ caught' = exc
            /\ stdout' = Append(stdout, ErrorReport(exc.msg))
            /\ exitCode' = ExitHandled
            /\ UNCHANGED <<escaped, stderr>>
       ELSE /\ escaped' = exc
            /\ exitCode' = UncaughtExit(exc)
            /\ stderr' = IF exc.kind = "SystemExit" THEN stderr
                         ELSE Append(stderr, Traceback(exc))
            /\ UNCHANGED <<caught, stdout>>

\* variant: --voice is declared without choices, any value is accepted
ParseArgsNoChoices ==
    /\ pc = "parse_args"
    /\ LET missing == argv.output = Absent
       IN  \/ /\ argv.help
              /\ stdout' = Append(stdout, HelpText)
              /\ exitCode' = ExitOk
              /\ pc' = "exited"
              /\ UNCHANGED <<args, stderr>>
           \/ /\ missing /\ ~argv.help
              /\ stderr' = Append(stderr, UsageError)
              /\ exitCode' = ExitUsage
              /\ pc' = "exited"
              /\ UNCHANGED <<args, stdout>>
           \/ /\ ~argv.help /\ ~missing
              /\ args' = [output |-> argv.output,
                          voice |-> IF argv.voice = Absent THEN DefaultVoice
                                    ELSE argv.voice,
                          text |-> argv.text]
              /\ pc' = "get_text"
              /\ UNCHANGED <<stdout, stderr, exitCode>>
    /\ UNCHANGED <<argv, text, stdinReads, stdinData, model, audio, calls,
                   files, caught, escaped>>

\* args = parser.parse_args()
ParseArgs ==
    /\ pc = "parse_args"
    /\ LET bad == argv.voice \notin Choices \cup {Absent}
           missing == argv.output = Absent
       IN  \/ \* -h is reached before any invalid argument: help, exit 0
              /\ argv.help
              /\ stdout' = Append(stdout, HelpText)
              /\ exitCode' = ExitOk
              /\ pc' = "exited"
              /\ UNCHANGED <<args, stderr>>
           \/ \* invalid choice, or the positional is missing at the end
              /\ bad \/ (missing /\ ~argv.help)
              /\ stderr' = Append(stderr, UsageError)
              /\ exitCode' = ExitUsage
              /\ pc' = "exited"
              /\ UNCHANGED <<args, stdout>>
           \/ /\ ~argv.help /\ ~bad /\ ~missing
              /\ args' = [output |-> argv.output,
                          voice |-> IF argv.voice = Absent THEN DefaultVoice
                                    ELSE argv.voice,
                          text |-> argv.text]
              /\ pc' = "get_text"
              /\ UNCHANGED <<stdout, stderr, exitCode>>
    /\ UNCHANGED <<argv, text, stdinReads, stdinData, model, audio, calls,
                   files, caught, escaped>>

\* if args.text: text = args.text  else: text = sys.stdin.read().strip()
GetText ==
    /\ pc = "get_text"
    /\ IF Truthy(args.text)
       THEN /\ text' = args.text
            /\ pc' = "check_text"
            /\ UNCHANGED <<stdinReads, stdinData, stdout, stderr, caught,
                           escaped, exitCode>>
       ELSE /\ stdinReads' = stdinReads + 1
            /\ \/ \E data \in Strings :
                    /\ stdinData' = data
                    /\ text' = Strip(data)
                    /\ pc' = "check_text"
                    /\ UNCHANGED <<stdout, stderr, caught, escaped, exitCode>>
               \/ \E exc \in Raisable :
                    /\ Raise(exc, FALSE)
                    /\ UNCHANGED <<stdinData, text>>
    /\ UNCHANGED <<argv, args, model, audio, calls, files>>

\* variant: the empty-text branch prints its report but has no sys.exit(1),
\* so the run goes on to the synthesis
CheckTextNoExit ==
    /\ pc = "check_text"
    /\ IF text = <<>>
       THEN stdout' = Append(stdout, ErrorReport("No text provided"))
       ELSE UNCHANGED stdout
    /\ pc' = "import"
    /\ UNCHANGED <<argv, args, text, stdinReads, stdinData, model, audio,
                   calls, files, stderr, caught, escaped, exitCode>>

\* if not text: print the "No text provided" report and sys.exit(1)
CheckText ==
    /\ pc = "check_text"
    /\ IF text = <<>>
       THEN /\ stdout' = Append(stdout, ErrorReport("No text provided"))
            /\ exitCode' = ExitHandled
            /\ pc' = "exited"
       ELSE /\ pc' = "import"
            /\ UNCHANGED <<stdout, exitCode>>
    /\ UNCHANGED <<argv, args, text, stdinReads, stdinData, model, audio,
                   calls, files, stderr, caught, escaped>>

\* one entry of the call log: the callee, its arguments, what it raised
Call(op, a, exc) ==
    [op |-> op, args |-> a, raised |-> exc.kind, msg |-> exc.msg]

\* from kittentts import KittenTTS; import soundfile as sf
Import ==
    /\ pc = "import"
    /\ \/ /\ calls' = Append(calls, Call("import", <<>>, NoExc))
          /\ pc' = "load"
          /\ UNCHANGED <<stdout, stderr, caught, escaped, exitCode>>
       \/ \E exc \in Raisable :
            /\ calls' = Append(calls, Call("import", <<>>, exc))
            /\ Raise(exc, TRUE)
    /\ UNCHANGED <<argv, args, text, stdinReads, stdinData, model, audio,
                   files>>

\* variant: a failed load is retried once
LoadRetry ==
    /\ pc = "load"
    /\ \/ /\ calls' = Append(calls, Call("load", <<ModelId>>, NoExc))
          /\ model' = ModelId
          /\ pc' = "generate"
          /\ UNCHANGED <<stdout, stderr, caught, escaped, exitCode>>
       \/ \E exc \in Raisable :
            /\ calls' = Append(calls, Call("load", <<ModelId>>, exc))
            /\ IF exc.kind = "Exception" /\ Len(calls) = 1
               THEN UNCHANGED <<pc, stdout, stderr, caught, escaped,
                                exitCode>>
               ELSE Raise(exc, TRUE)
            /\ UNCHANGED model
    /\ UNCHANGED <<argv, args, text, stdinReads, stdinData, audio, files>>

\* model = KittenTTS("KittenML/kitten-tts-nano-0.2")
Load ==
    /\ pc = "load"
    /\ \/ /\ calls' = Append(calls, Call("load", <<ModelId>>, NoExc))
          /\ model' = ModelId
          /\ pc' = "generate"
          /\ UNCHANGED <<stdout, stderr, caught, escaped, exitCode>>
       \/ \E exc \in Raisable :
            /\ calls' = Append(calls, Call("load", <<ModelId>>, exc))
            /\ Raise(exc, TRUE)
            /\ UNCHANGED model
    /\ UNCHANGED <<argv, args, text, stdinReads, stdinData, audio, files>>

\* audio = model.generate(text, voice=args.voice)
Generate ==
    /\ pc = "generate"
    /\ \/ \E w \in Waveforms :
            /\ calls' = Append(calls,
                               Call("generate", <<text, args.voice>>, NoExc))
            /\ audio' = w
            /\ pc' = "write"
            /\ UNCHANGED <<stdout, stderr, caught, escaped, exitCode>>
       \/ \E exc \in Raisable :
            /\ calls' = Append(calls,
                               Call("generate", <<text, args.voice>>, exc))
            /\ Raise(exc, TRUE)
            /\ UNCHANGED audio
    /\ UNCHANGED <<argv, args, text, stdinReads, stdinData, model, files>>

\* sf.write(args.output, audio, 24000)
Write ==
    /\ pc = "write"
    /\ \/ /\ calls' = Append(calls,
                 Call("write", <<args.output, audio, SampleRate>>, NoExc))
          /\ files' = [files EXCEPT ![args.output] =
                           [audio |-> audio, rate |-> SampleRate]]
          /\ pc' = "report"
          /\ UNCHANGED <<stdout, stderr, caught, escaped, exitCode>>
       \/ \E exc \in Raisable :
            /\ calls' = Append(calls,
                   Call("write", <<args.output, audio, SampleRate>>, exc))
            /\ Raise(exc, TRUE)
            \* what a failed write leaves behind is up to the library
            /\ \/ UNCHANGED files
               \/ files' = [files EXCEPT ![args.output] = Partial]
    /\ UNCHANGED <<argv, args, text, stdinReads, stdinData, model, audio>>

\* print the success report; main() returns and the process exits with 0
Report ==
    /\ pc = "report"
    /\ stdout' = Append(stdout,
                        SuccessReport(args.output, args.voice, text))
    /\ exitCode' = ExitOk
    /\ pc' = "exited"
    /\ UNCHANGED <<argv, args, text, stdinReads, stdinData, model, audio,
                   calls, files, stderr, caught, escaped>>

Next ==
    \/ ParseArgs
    \/ GetText
    \/ CheckText
    \/ Import
    \/ Load
    \/ Generate
    \/ Write
    \/ Report

Spec == Init /\ [][Next]_vars

\* the interpreter keeps executing main() until the process exits
FairSpec == Spec /\ WF_vars(Next)

(***************************************************************************)
(* Vocabulary of the properties.                                           *)
(***************************************************************************)
Exited == pc = "exited"
\* parse_args() returned a namespace
Parsed == args # NoArgs
IsReport(l) == "success" \in DOMAIN l
\* the JSON status reports on standard output
JsonLines == SelectSeq(stdout, IsReport)
IsSuccessReport(l) ==
    /\ DOMAIN l = {"success", "output", "voice", "text_length"}
    /\ l.success = TRUE
IsErrorReport(l) ==
    /\ DOMAIN l = {"success", "error"}
    /\ l.success = FALSE
Invoked(op) == \E i \in 1..Len(calls) : calls[i].op = op
Returned(op) ==
    \E i \in 1..Len(calls) : calls[i].op = op /\ calls[i].raised = "none"
Count(op) == Cardinality({i \in 1..Len(calls) : calls[i].op = op})
\* the text the run took in, before any stripping: the --text value, or the
\* content of standard input when the run read it
InputText == IF stdinReads = 0 THEN argv.text ELSE stdinData
\* the text a run is to synthesize: the --text value as it is, or the
\* stripped content of standard input
AcquiredText == IF stdinReads = 0 THEN argv.text ELSE Strip(stdinData)
SelectedVoice == IF argv.voice = Absent THEN "expr-voice-2-f" ELSE argv.voice
NoTextReport == [success |-> FALSE, error |-> "No text provided"]

(***************************************************************************)
(* C1.  An invocation whose input text is empty or only whitespace, from   *)
(* --text or from standard input, prints the "No text provided" report,    *)
(* exits with 1, and neither loads the model nor calls generate nor writes *)
(* a file.  Stated as the claim has it; the script breaks it for a         *)
(* whitespace-only --text, which is not stripped.                          *)
(***************************************************************************)
C1_BlankTextIsRejected ==
    (Parsed /\ escaped = NoExc /\ InputText # None
            /\ Strip(InputText) = <<>>)
    => /\ ~Invoked("load") /\ ~Invoked("generate") /\ ~Invoked("write")
       /\ files = NoFiles
       /\ Exited => (stdout = <<NoTextReport>> /\ exitCode = 1)

(***************************************************************************)
(* C2.  With --text the synthesized text is the supplied value and         *)
(* standard input is not read; without it the text is the stripped content *)
(* of standard input.  Standard input is read only when --text is omitted. *)
(* Stated as the claim has it; the script breaks it for --text "".         *)
(***************************************************************************)
C2_TextSource ==
    /\ stdinReads > 0 => argv.text = None
    /\ \A i \in 1..Len(calls) :
         calls[i].op = "generate" =>
           calls[i].args[1] = IF argv.text # None THEN argv.text
                              ELSE Strip(stdinData)

(***************************************************************************)
(* C10.  Whenever the model is loaded or generate is called, the text is   *)
(* non-empty after trimming whitespace and the voice is one of the eight   *)
(* choices, and generate gets the voice and text the success report        *)
(* describes.  Stated as the claim has it; the script breaks it for a      *)
(* whitespace-only --text (see C1).                                        *)
(***************************************************************************)
C10_RequestInvariant ==
    \A i \in 1..Len(calls) :
      calls[i].op \in {"load", "generate"} =>
        /\ Strip(text) # <<>>
        /\ args.voice \in Choices
        /\ args.voice = SelectedVoice
        /\ calls[i].op = "generate" =>
             /\ calls[i].args = <<text, args.voice>>
             /\ \A j \in 1..Len(JsonLines) :
                  IsSuccessReport(JsonLines[j]) =>
                    /\ JsonLines[j].voice = calls[i].args[2]
                    /\ JsonLines[j].text_length = Len(calls[i].args[1])


(***************************************************************************)
(* C3.  Original statement: every invocation, whatever its arguments and   *)
(* whatever the collaborators do, has printed exactly one JSON report when *)
(* it exits.                                                               *)
(***************************************************************************)
C3_ExactlyOneReportAlways == Exited => Len(JsonLines) = 1

(***************************************************************************)
(* C3, amended.  No run prints more than one JSON report (so never both a  *)
(* success and an error report).  A run whose arguments parse and in which *)
(* no exception propagates out of main() has printed exactly one when it   *)
(* exits; a run that ends in argparse (usage error, -h) or by an exception *)
(* that propagates out of main() has printed none.                         *)
(***************************************************************************)
C3_AtMostOneReport ==
    /\ Len(JsonLines) <= 1
    /\ Exited =>
         IF Parsed /\ escaped = NoExc
         THEN Len(JsonLines) = 1
         ELSE JsonLines = <<>>

\* a run that caught a collaborator's Exception and printed its one report
C3_Witness ==
    /\ Exited /\ Parsed /\ caught # NoExc
    /\ Len(JsonLines) = 1 /\ IsErrorReport(JsonLines[1])

(***************************************************************************)
(* C4.  For a non-empty text and a valid voice (the default when --voice   *)
(* is omitted), when import, model loading, generation and writing do not  *)
(* fail, the run writes the generated waveform to the output path at       *)
(* sample rate 24000, prints the success report with the given path, the   *)
(* selected voice and the character count of the synthesized text (the     *)
(* stripped text when it came from standard input), and exits with 0.      *)
(***************************************************************************)
C4_SuccessPath ==
    (Exited /\ Parsed /\ caught = NoExc /\ escaped = NoExc
            /\ AcquiredText # <<>>)
    => /\ audio \in Waveforms
       /\ files[argv.output] = [audio |-> audio, rate |-> 24000]
       /\ \A p \in Paths \ {argv.output} : files[p] = NoFile
       /\ calls[Len(calls)] =
            [op |-> "write", args |-> <<argv.output, audio, 24000>>,
             raised |-> "none", msg |-> ""]
       /\ stdout = <<[success |-> TRUE, output |-> argv.output,
                      voice |-> SelectedVoice,
                      text_length |-> Len(AcquiredText)]>>
       /\ exitCode = 0

\* a successful run on a text from standard input that strip() shortened,
\* with the default voice
C4_Witness ==
    /\ Exited /\ Parsed /\ caught = NoExc /\ escaped = NoExc
    /\ stdinReads = 1 /\ Len(stdinData) > Len(Strip(stdinData))
    /\ Strip(stdinData) # <<>>
    /\ argv.voice = Absent
    /\ exitCode = 0 /\ Len(stdout) = 1 /\ IsSuccessReport(stdout[1])

(***************************************************************************)
(* C5.  A failure (an Exception) raised by the import, by model loading,   *)
(* by generation or by file writing is caught: the call that raised is the *)
(* last one of the run, the run prints the report with success false and   *)
(* the failure's message, and nothing else, and exits with 1; when the     *)
(* failure is not in the writer, the writer is never invoked and no file   *)
(* is written.                                                             *)
(***************************************************************************)
C5_FailureIsReported ==
    \A i \in 1..Len(calls) :
      calls[i].raised = "Exception" =>
        /\ i = Len(calls)
        /\ Exited
        /\ stdout = <<[success |-> FALSE, error |-> calls[i].msg]>>
        /\ exitCode = 1
        /\ calls[i].op # "write" =>
             (~Invoked("write") /\ files = NoFiles)

\* generate raised an Exception after a successful load
C5_Witness ==
    /\ Len(calls) = 3
    /\ calls[3].op = "generate" /\ calls[3].raised = "Exception"
    /\ calls[3].msg = "disk full"
    /\ Exited /\ exitCode = 1


(***************************************************************************)
(* C6.  Original statement: every run in which the writer is invoked ends  *)
(* with the success report and exit code 0; no run that ends with an error *)
(* report has invoked the writer.                                          *)
(***************************************************************************)
C6_WriterOnlyInSuccessfulRuns ==
    Exited =>
      /\ Invoked("write") =>
           (Len(stdout) = 1 /\ IsSuccessReport(stdout[1]) /\ exitCode = 0)
      /\ (\E j \in 1..Len(JsonLines) : IsErrorReport(JsonLines[j]))
           => ~Invoked("write")

(***************************************************************************)
(* C6, amended.  The writer is invoked at most once, after the import,     *)
(* the model load and generate have returned and before anything is        *)
(* printed, and no file changes without it.  Every run in which the writer *)
(* returns ends with the success report and exit code 0.  A run that ends  *)
(* with an error report has invoked the writer only when the writer itself *)
(* raised the failure that is reported.                                    *)
(***************************************************************************)
C6_WriterOnSuccessPath ==
    /\ Count("write") <= 1
    /\ files # NoFiles => Invoked("write")
    /\ \A i \in 1..Len(calls) :
         calls[i].op = "write" =>
           /\ i = 4
           /\ \A k \in 1..3 : calls[k].raised = "none"
           /\ calls[i].raised = "none" /\ ~Exited => stdout = <<>>
           /\ calls[i].raised = "none" /\ Exited =>
                /\ Len(stdout) = 1 /\ IsSuccessReport(stdout[1])
                /\ exitCode = 0
           /\ calls[i].raised # "none" =>
                /\ files[argv.output] \in {NoFile, Partial}
                /\ \A j \in 1..Len(JsonLines) :
                     /\ calls[i].raised = "Exception"
                     /\ JsonLines[j] =
                          [success |-> FALSE, error |-> calls[i].msg]

\* the writer was invoked, raised, and the run ended with the error report
C6_Witness ==
    /\ Exited /\ Len(calls) = 4
    /\ calls[4].op = "write" /\ calls[4].raised = "Exception"
    /\ Len(stdout) = 1 /\ IsErrorReport(stdout[1]) /\ exitCode = 1
    /\ files[argv.output] = Partial

(***************************************************************************)
(* C7.  Original statement: a --voice value outside the choices, or a      *)
(* missing output path, ends the run at argument parsing with a non-zero   *)
(* exit code before standard input is read, the model loaded, generate or  *)
(* the writer invoked, or a JSON report printed.                           *)
(***************************************************************************)
C7_BadArgumentsExitNonZero ==
    ((argv.voice = "robot" \/ argv.output = "<absent>")
        /\ pc # "parse_args")
    => /\ Exited /\ exitCode \notin {0, Running}
       /\ stdinReads = 0 /\ calls = <<>> /\ JsonLines = <<>>

(***************************************************************************)
(* C7, amended.  A --voice value outside the choices, or a missing output  *)
(* path, ends the run at argument parsing before standard input is read,   *)
(* the model loaded, generate or the writer invoked, or a JSON report      *)
(* printed.  The exit code is 2, with the usage error on standard error,   *)
(* unless -h is on the command line, where argparse may print the help and *)
(* exit with 0 instead.                                                    *)
(***************************************************************************)
C7_BadArgumentsEndAtParsing ==
    ((argv.voice = "robot" \/ argv.output = "<absent>")
        /\ pc # "parse_args")
    => /\ Exited /\ ~Parsed
       /\ stdinReads = 0 /\ calls = <<>> /\ JsonLines = <<>>
       /\ text = None /\ files = NoFiles
       /\ \/ exitCode = 2 /\ stderr = <<UsageError>> /\ stdout = <<>>
          \/ argv.help /\ exitCode = 0 /\ stdout = <<HelpText>>
                       /\ stderr = <<>>

\* an invalid voice with an otherwise complete command line
C7_Witness ==
    /\ Exited /\ argv.voice = "robot" /\ ~argv.help
    /\ argv.output = "out.wav" /\ argv.text = <<"a">>
    /\ exitCode = 2

(***************************************************************************)
(* C8.  Original statement: the process exits with 0 iff it printed a      *)
(* success report (exactly success, output, voice, text_length), with 1    *)
(* iff it printed an error report (exactly success, error), and with any   *)
(* other code only for argument-parsing errors.                            *)
(***************************************************************************)
C8_ExitCodeIffReport ==
    Exited =>
      /\ exitCode = 0 <=> (Len(stdout) = 1 /\ IsSuccessReport(stdout[1]))
      /\ exitCode = 1 <=> (Len(stdout) = 1 /\ IsErrorReport(stdout[1]))
      /\ exitCode \notin {0, 1} => (~Parsed /\ stderr = <<UsageError>>)

(***************************************************************************)
(* C8, amended.  Every report printed has one of the two shapes, and the   *)
(* exit code agrees with it: 0 after a success report, 1 after an error    *)
(* report.  A run that exits without a report was ended either by argparse *)
(* (exit code 2 for a usage error, 0 for -h) or by an exception that       *)
(* propagated out of main(): exit code 1 for an Exception from the read of *)
(* standard input, the code of a SystemExit, 130 for KeyboardInterrupt.    *)
(***************************************************************************)
C8_ExitCodeAgreesWithReport ==
    /\ \A j \in 1..Len(JsonLines) :
         /\ IsSuccessReport(JsonLines[j]) \/ IsErrorReport(JsonLines[j])
         /\ Exited
         /\ IsSuccessReport(JsonLines[j]) => exitCode = 0
         /\ IsErrorReport(JsonLines[j]) => exitCode = 1
    /\ (Exited /\ JsonLines = <<>>) =>
         \/ /\ ~Parsed /\ escaped = NoExc
            /\ \/ exitCode = 2 /\ stderr = <<UsageError>>
               \/ exitCode = 0 /\ argv.help /\ stdout = <<HelpText>>
         \/ /\ Parsed /\ escaped.kind = "Exception"
            /\ calls = <<>> /\ stdinReads = 1 /\ exitCode = 1
         \/ /\ Parsed /\ escaped.kind = "SystemExit"
            /\ exitCode = escaped.code
         \/ /\ Parsed /\ escaped.kind = "KeyboardInterrupt"
            /\ exitCode = 130

\* the handled failure of an empty text: error report and exit code 1
C8_Witness ==
    /\ Exited /\ exitCode = 1 /\ stdout = <<NoTextReport>>
    /\ stdinReads = 1 /\ stdinData = <<" ", "\n">>

(***************************************************************************)
(* C9.  Original statement: import, load, generate, write and the report   *)
(* happen at most once and in that order, with no retry, and every run     *)
(* ends in exactly one of: argument error, error report, success report.   *)
(***************************************************************************)
CallOrder == <<"import", "load", "generate", "write">>

C9_Linear ==
    /\ Len(calls) <= 4
    /\ \A i \in 1..Len(calls) :
         /\ calls[i].op = CallOrder[i]
         /\ i < Len(calls) => calls[i].raised = "none"
         /\ calls[i].raised # "none" => Exited
    /\ stdinReads <= 1
    /\ Len(JsonLines) <= 1
    /\ \A j \in 1..Len(JsonLines) :
         IsSuccessReport(JsonLines[j]) => Returned("write")

OutcomeArgumentError == ~Parsed /\ exitCode = 2
OutcomeHelp == ~Parsed /\ exitCode = 0
OutcomeErrorReport == Len(JsonLines) = 1 /\ IsErrorReport(JsonLines[1])
OutcomeSuccessReport == Len(JsonLines) = 1 /\ IsSuccessReport(JsonLines[1])
OutcomeUnhandled == escaped # NoExc

NumTrue(b) == IF b THEN 1 ELSE 0

\* C9 as stated: a linear pass that ends in one of the three listed outcomes
C9_ThreeTerminalOutcomes ==
    /\ C9_Linear
    /\ Exited =>
         NumTrue(OutcomeArgumentError) + NumTrue(OutcomeErrorReport)
           + NumTrue(OutcomeSuccessReport) = 1

(***************************************************************************)
(* C9, amended.  Every run is a single linear pass that terminates: the    *)
(* read of standard input, import, load, generate, write and the report    *)
(* each happen at most once and only in that order, each only after the    *)
(* one before it returned, with no retry; every run exits, in exactly one  *)
(* of five ways: argparse usage error, argparse help, error report,        *)
(* success report, or an exception that propagates out of main().          *)
(***************************************************************************)
C9_FiveTerminalOutcomes ==
    /\ C9_Linear
    /\ Exited =>
         NumTrue(OutcomeArgumentError) + NumTrue(OutcomeHelp)
           + NumTrue(OutcomeErrorReport) + NumTrue(OutcomeSuccessReport)
           + NumTrue(OutcomeUnhandled) = 1

\* C9, amended: the pass is linear, ends in one of the five outcomes,
\* and every run exits
C9_LinearPassTerminates == []C9_FiveTerminalOutcomes /\ <>Exited

\* a complete pass: standard input read, four calls, the success report
C9_Witness ==
    /\ Exited /\ stdinReads = 1 /\ Len(calls) = 4
    /\ OutcomeSuccessReport /\ exitCode = 0


====
